---------------------------- MODULE Spec2Model ----------------------------
(***************************************************************************)
(* State-machine model of bbergfeld/snow_models:                           *)
(*   - snow_models/crack_propagation.py  _anticrack_propagation_speed      *)
(*   - snow_models/wave_propagation.py   _shear_wave_speed,                *)
(*                                       _rayleigh_wave_speed              *)
(*   - snow_models/mechanical_params.py  class get_E_from_rho              *)
(*                                                                         *)
(* Floating-point numbers are rendered as signed fixed-point integers with *)
(* Scale units per 1.0 plus the IEEE specials NaN, +inf and -inf.  The     *)
(* arithmetic follows numpy's rules for the specials (x/0 = inf, 0/0 =    *)
(* NaN, inf - inf = NaN, comparisons with NaN are false); where the code   *)
(* divides Python scalars, the division by zero raises instead and the     *)
(* action that models the line tests for it.                               *)
(***************************************************************************)
EXTENDS Integers, Sequences, FiniteSets, TLC

VARIABLES
    pc,        \* solver: position of each invocation (per thread)
    args,      \* solver: the arguments of the running / last call
    frame,     \* solver: the local variables of each invocation's frame
    it,        \* solver: the root finder's iteration state of each call
    out,       \* solver: how the call ended
    budget,    \* solver: calls a thread may still start
    memo,      \* history: one earlier completed call (arguments, outcome)
    overlap,   \* history: some step ran while the other call was in flight
    w,         \* wave_propagation: one helper call
    e,         \* mechanical_params: one get_E_from_rho object and method call
    gr         \* mechanical_params: one density/hardness estimator call

vars == <<pc, args, frame, it, out, budget, memo, overlap, w, e, gr>>

solverVars == <<pc, args, frame, it, out, budget, memo, overlap>>

-----------------------------------------------------------------------------
(* Number format                                                           *)

\* Units per 1.0 of the fixed-point rendition of a float.
Scale == 10000

\* Largest finite magnitude of the format; beyond it a result overflows to
\* +-inf, as a float64 does beyond 1.8e308.
FMax == 500000000

\* Magnitude up to which a value times Scale still fits the machine word.
Split == 200000

PInf == 2000000001
NInf == -2000000001
NaN == 2000000003

Abs(a) == IF a < 0 THEN -a ELSE a

Sgn(a) == IF a > 0 THEN 1 ELSE IF a < 0 THEN -1 ELSE 0

IsNaN(a) == a = NaN

\* F applied to the value of v (two values: of u and v), each evaluated once.
Bind(v, F(_)) == CHOOSE r \in {F(x) : x \in {v}} : TRUE

Bind2(u, v, F(_, _)) == CHOOSE r \in {F(x, y) : x \in {u}, y \in {v}} : TRUE

Finite(a) == a >= -FMax /\ a <= FMax

Norm(v) == IF v > FMax THEN PInf ELSE IF v < -FMax THEN NInf ELSE v

FNegV(a) == IF a = NaN THEN NaN ELSE -a

FNeg(a) == Bind(a, FNegV)

FAbsV(a) == IF a = NaN THEN NaN ELSE Abs(a)

FAbs(a) == Bind(a, FAbsV)

FAddV(a, b) ==
    IF a = NaN \/ b = NaN THEN NaN
    ELSE IF ~Finite(a) THEN (IF ~Finite(b) /\ a # b THEN NaN ELSE a)
    ELSE IF ~Finite(b) THEN b
    ELSE Norm(a + b)

FAdd(a, b) == Bind2(a, b, FAddV)

FSub(a, b) == FAdd(a, FNeg(b))

\* a * b / Scale for magnitudes, without leaving the machine word.
MulMag(a, b) ==
    LET ah == a \div Scale
        al == a % Scale
        bh == b \div Scale
        bl == b % Scale
    IN  IF ah > 0 /\ bh > (FMax \div Scale) \div ah THEN PInf
        ELSE Norm(ah * bh * Scale + ah * bl + al * bh + (al * bl) \div Scale)

FMulV(a, b) ==
    IF a = NaN \/ b = NaN THEN NaN
    ELSE IF ~Finite(a) \/ ~Finite(b)
         THEN (IF a = 0 \/ b = 0 THEN NaN
               ELSE IF Sgn(a) * Sgn(b) > 0 THEN PInf ELSE NInf)
    ELSE LET m == MulMag(Abs(a), Abs(b))
         IN  IF Sgn(a) * Sgn(b) >= 0 THEN m ELSE -m

FMul(a, b) == Bind2(a, b, FMulV)

\* a * Scale / b for magnitudes, b > 0.
DivMag(a, b) ==
    LET q == a \div b
        r == a % b
    IN  IF q > FMax \div Scale THEN PInf
        ELSE Norm(q * Scale
                  + (IF r <= Split THEN (r * Scale) \div b
                                   ELSE r \div (b \div Scale)))

\* numpy division: a zero divisor gives inf or NaN, never an exception.
FDivV(a, b) ==
    IF a = NaN \/ b = NaN THEN NaN
    ELSE IF ~Finite(a) THEN (IF ~Finite(b) THEN NaN
                             ELSE IF b >= 0 THEN a ELSE -a)
    ELSE IF ~Finite(b) THEN 0
    ELSE IF b = 0 THEN (IF a = 0 THEN NaN ELSE IF a > 0 THEN PInf ELSE NInf)
    ELSE LET m == DivMag(Abs(a), Abs(b))
         IN  IF Sgn(a) * Sgn(b) >= 0 THEN m ELSE -m

FDiv(a, b) == Bind2(a, b, FDivV)

\* Comparisons: false as soon as one side is NaN.
FLtV(a, b) == a # NaN /\ b # NaN /\ a < b

FLt(a, b) == Bind2(a, b, FLtV)

FLeV(a, b) == a # NaN /\ b # NaN /\ a <= b

FLe(a, b) == Bind2(a, b, FLeV)

FGt(a, b) == FLt(b, a)

FGe(a, b) == FLe(b, a)

\* max(a,b) and min(a,b) as the C macros compute them.
FMaxOfV(a, b) == IF FGe(a, b) THEN a ELSE b

FMaxOf(a, b) == Bind2(a, b, FMaxOfV)

FMinOfV(a, b) == IF FLe(a, b) THEN a ELSE b

FMinOf(a, b) == Bind2(a, b, FMinOfV)

RECURSIVE IsqrtIn(_, _, _)
IsqrtIn(n, lo, hi) ==
    IF lo >= hi THEN lo
    ELSE LET mid == (lo + hi + 1) \div 2
         IN  IF mid * mid <= n THEN IsqrtIn(n, mid, hi)
                               ELSE IsqrtIn(n, lo, mid - 1)

\* Largest r with r * r <= n.
Isqrt(n) == IsqrtIn(n, 0, 46340)

\* np.sqrt: NaN for a negative argument.
FSqrtV(a) ==
    IF a = NaN \/ a < 0 THEN NaN
    ELSE IF a = PInf THEN PInf
    ELSE IF a <= Split THEN Isqrt(a * Scale)
    ELSE Isqrt(a) * Isqrt(Scale)

FSqrt(a) == Bind(a, FSqrtV)

Pi == 31416

TwoPi == 62832

HalfPi == 15708

\* sin on [-pi/2, pi/2]: x (1 - x2/6 (1 - x2/20 (1 - x2/42))).
SinSeries(x) ==
    LET x2 == (x * x) \div Scale
        t3 == Scale - x2 \div 42
        t2 == Scale - ((x2 * t3) \div Scale) \div 20
        t1 == Scale - ((x2 * t2) \div Scale) \div 6
    IN  Sgn(x) * ((Abs(x) * t1) \div Scale)

\* cos on [-pi/2, pi/2]: 1 - x2/2 (1 - x2/12 (1 - x2/30)).
CosSeries(x) ==
    LET x2 == (x * x) \div Scale
        t3 == Scale - x2 \div 30
        t2 == Scale - ((x2 * t3) \div Scale) \div 12
    IN  Scale - ((x2 * t2) \div Scale) \div 2

\* The argument brought into (-pi, pi].
Reduce(a) ==
    LET r == a % TwoPi
    IN  IF r > Pi THEN r - TwoPi ELSE r

FSinV(a) ==
    IF ~Finite(a) THEN NaN
    ELSE LET r == Reduce(a)
         IN  IF r > HalfPi THEN SinSeries(Pi - r)
             ELSE IF r < -HalfPi THEN SinSeries(-Pi - r)
             ELSE SinSeries(r)

FSin(a) == Bind(a, FSinV)

FCosV(a) ==
    IF ~Finite(a) THEN NaN
    ELSE LET r == Reduce(a)
         IN  IF r > HalfPi THEN -CosSeries(Pi - r)
             ELSE IF r < -HalfPi THEN -CosSeries(-Pi - r)
             ELSE CosSeries(r)

FCos(a) == Bind(a, FCosV)

FTanV(a) == FDiv(FSin(a), FCos(a))

FTan(a) == Bind(a, FTanV)

\* A number with n hundredths: Hund(25) is 0.25.
Hund(n) == n * (Scale \div 100)

\* A whole number.
Whole(n) == n * Scale

-----------------------------------------------------------------------------
(* wave_propagation.py                                                     *)

\* _shear_wave_speed(G, rho): np.sqrt(G/rho)
shear_wave_speed(G, rho) == FSqrt(FDiv(G, rho))

\* _long_wave_speed(E, rho): np.sqrt(E/rho)
long_wave_speed(E, rho) == FSqrt(FDiv(E, rho))

\* The ratio under the square root of the Bergmann approximation:
\* (0.87 + 1.12*nu)/(1+nu)
BergmannRatioSwapped(nu) ==
    FDiv(FAdd(Hund(112), FMul(Hund(87), nu)), FAdd(Whole(1), nu))

BergmannRatio(nu) ==
    FDiv(FAdd(Hund(87), FMul(Hund(112), nu)), FAdd(Whole(1), nu))

\* x = np.sqrt((0.87 + 1.12*nu)/(1+nu))
BergmannFactor(nu) == FSqrt(BergmannRatio(nu))

\* _rayleigh_wave_speed(E, G, rho, nu): x * shear_wave_speed(G, rho)
rayleigh_wave_speed(E, G, rho, nu) ==
    FMul(BergmannFactor(nu), shear_wave_speed(G, rho))

\* Poisson ratios of the open interval (-1, 0.5), in hundredths.
WaveNu == {Hund(n) : n \in -99..49}

WaveG == {Whole(400), Whole(4800)}

WaveRho == {Whole(100), Whole(250)}

WaveE == {Whole(12000)}

WIdle == [pc |-> "idle", E |-> 0, G |-> 0, rho |-> 0, nu |-> 0,
          cs |-> 0, cr |-> 0]

\* The caller passes E > 0, G > 0, rho > 0 and nu in (-1, 0.5).
WCall ==
    /\ w.pc = "idle"
    /\ \E E \in WaveE, G \in WaveG, rho \in WaveRho, nu \in WaveNu :
          w' = [WIdle EXCEPT !.pc = "called", !.E = E, !.G = G,
                             !.rho = rho, !.nu = nu]
    /\ UNCHANGED <<solverVars, e, gr>>

\* The caller evaluates shear_wave_speed(G, rho).
WShear ==
    /\ w.pc = "called"
    /\ w' = [w EXCEPT !.pc = "shear", !.cs = shear_wave_speed(w.G, w.rho)]
    /\ UNCHANGED <<solverVars, e, gr>>

\* The caller evaluates rayleigh_wave_speed(E, G, rho, nu).
WRayleigh ==
    /\ w.pc = "shear"
    /\ w' = [w EXCEPT !.pc = "done",
                      !.cr = rayleigh_wave_speed(w.E, w.G, w.rho, w.nu)]
    /\ UNCHANGED <<solverVars, e, gr>>

-----------------------------------------------------------------------------
(* mechanical_params.py: class get_E_from_rho                              *)
(*                                                                         *)
(* An elastic modulus spans many decades (6E-10 * rho**4.6 * 1E6), so a    *)
(* modulus is held as its decimal logarithm in thousandths of a decade:    *)
(* a product adds, a quotient subtracts, x**a multiplies by a.  Densities  *)
(* and exponents stay ordinary numbers.                                    *)

\* log10 of the literals of the class, in thousandths.
Log10m(x) ==
    CASE x = "6E-10"   -> -9222
      [] x = "2E-8"    -> -7699
      [] x = "6.5E3"   -> 3813
      [] x = "918"     -> 2963
      [] x = "0.93"    -> -32
      [] x = "0.1873"  -> -727
      [] x = "1.89E-6" -> -5724
      [] x = "2.71"    -> 433
      [] x = "e"       -> 434
      [] x = "1E6"     -> 6000
      [] x = "1E-3"    -> -3000
      [] x = "1E-6"    -> -6000
      [] x = "1E-9"    -> -9000

\* log10 of the densities and moduli the inputs are drawn from.
Log10n(n) ==
    CASE n = 100     -> 2000
      [] n = 200     -> 2301
      [] n = 300     -> 2477
      [] n = 1000000 -> 6000
      [] n = 5000000 -> 6699

\* The same literals as ordinary numbers, in thousandths (6E-10, 2E-8 and
\* 1.89E-6 are below the resolution).
Milli(x) ==
    CASE x = "6E-10"   -> 0
      [] x = "2E-8"    -> 0
      [] x = "6.5E3"   -> 6500000
      [] x = "0.93"    -> 930
      [] x = "0.1873"  -> 187
      [] x = "1.89E-6" -> 0
      [] x = "2.71"    -> 2710

\* log10 of the largest float64, 1.8e308, in thousandths.
LgFloatMax == 308254

Num(lg) == [k |-> "num", lg |-> lg]

None == [k |-> "None", lg |-> 0]

\* lg(x ** a) for an exponent a given in thousandths.
LgPow(lgx, aMilli) ==
    (aMilli \div 1000) * lgx + ((aMilli % 1000) * lgx) \div 1000

\* lg(np.exp(r * rho)) for a rate r given in ten-thousandths per kg/m3.
LgExp(rTenThousandths, rho) ==
    (rTenThousandths * rho * Log10m("e")) \div 10000

\* scale_output(self, result), lines 33-53.  A result that is None comes
\* back as None for "Pa" and raises TypeError in None * 1E-3 otherwise.
scale_output(output_unit, result) ==
    IF output_unit = "Pa" THEN [kind |-> "return", v |-> result]
    ELSE IF output_unit \in {"kPa", "MPa", "GPa"}
    THEN (IF result.k = "None" THEN [kind |-> "TypeError", v |-> None]
          ELSE [kind |-> "return",
                v |-> Num(result.lg
                          + (CASE output_unit = "kPa" -> Log10m("1E-3")
                               [] output_unit = "MPa" -> Log10m("1E-6")
                               [] output_unit = "GPa" -> Log10m("1E-9")))])
    ELSE [kind |-> "return", v |-> None]

\* apply_scaling(self, scaling_factor, formula_result), lines 55-75:
\*   factor = scaling[0] / scaling_factor * scaling[1]**scaling_factor
\* Any exception in the try block (a scaling with fewer than two entries,
\* the float power overflowing) prints "Scaling failed" and returns None.
apply_scaling(scaling, scaling_factor, formula_result) ==
    IF scaling.k = "none" THEN formula_result
    ELSE IF scaling.k # "pair" THEN None
    ELSE LET lgpow == LgPow(Log10n(scaling.rho), Milli(scaling_factor))
         IN  IF lgpow > LgFloatMax THEN None
             ELSE Num(Log10n(scaling.E) - Log10m(scaling_factor) + lgpow
                      + formula_result.lg)

\* The base formula of each e_* method ("Base formula without scaling").
e_formula(method, rho) ==
    CASE method = "e_gerling_2017_AC" ->
            Num(Log10m("6E-10") + LgPow(Log10n(rho), 4600) + Log10m("1E6"))
      [] method = "e_gerling_2017_CT" ->
            Num(Log10m("2E-8") + LgPow(Log10n(rho), 3980) + Log10m("1E6"))
      [] method = "e_bergfeld_2022" ->
            Num(Log10m("6.5E3") + LgPow(Log10n(rho) - Log10m("918"), 4400)
                + Log10m("1E6"))
      [] method = "e_Herwijnen_2016" ->
            Num(Log10m("0.93") + LgPow(Log10n(rho), 2800))
      [] method = "e_scapozza_2004" ->
            Num(Log10m("0.1873") + LgExp(149, rho) + Log10m("1E6"))
      [] method = "e_sigrist_2006_powerlaw" ->
            Num(Log10m("1.89E-6") + LgPow(Log10n(rho), 2940) + Log10m("1E6"))
      [] method = "e_sigrist_2006_exponential" ->
            Num(Log10m("2.71") + LgExp(85, rho) + Log10m("1E6"))

\* The scaling_factor each e_* method hands to apply_scaling.
e_scaling_factor(method) ==
    CASE method = "e_gerling_2017_AC"          -> "6E-10"
      [] method = "e_gerling_2017_CT"          -> "2E-8"
      [] method = "e_bergfeld_2022"            -> "6.5E3"
      [] method = "e_Herwijnen_2016"           -> "0.93"
      [] method = "e_scapozza_2004"            -> "0.1873"
      [] method = "e_sigrist_2006_powerlaw"    -> "1.89E-6"
      [] method = "e_sigrist_2006_exponential" -> "0.1873"

EMethods == {"e_gerling_2017_AC", "e_gerling_2017_CT", "e_bergfeld_2022",
             "e_Herwijnen_2016", "e_scapozza_2004",
             "e_sigrist_2006_powerlaw", "e_sigrist_2006_exponential"}

EUnits == {"Pa", "kPa", "MPa", "GPa", "bar"}

ERho == {100, 200, 300}

\* scaling=None, scaling=(E_measured, rho_measured), and a scaling with
\* one entry only, (E_measured,), on which scaling[1] raises IndexError.
NoScaling == [k |-> "none", E |-> 0, rho |-> 0]

EScalings ==
    {NoScaling}
    \cup {[k |-> "pair", E |-> E, rho |-> rho] :
              E \in {1000000, 5000000}, rho \in ERho}
    \cup {[k |-> "short", E |-> 1000000, rho |-> 0]}

EIdle == [pc |-> "idle", method |-> "", rho |-> 0, scaling |-> NoScaling,
          output_unit |-> "", result |-> None, out |-> "none"]

\* get_E_from_rho(rho, scaling, output_unit).<method>() is called: the
\* constructor stores its arguments unchecked (lines 29-31).
ENew ==
    /\ e.pc = "idle"
    /\ \E m \in EMethods, rho \in ERho, sc \in EScalings, u \in EUnits :
          e' = [EIdle EXCEPT !.pc = "new", !.method = m, !.rho = rho,
                             !.scaling = sc, !.output_unit = u]
    /\ UNCHANGED <<solverVars, w, gr>>

\* First line of the method: result = <base formula>.
EFormula ==
    /\ e.pc = "new"
    /\ e' = [e EXCEPT !.pc = "formula", !.result = e_formula(e.method, e.rho)]
    /\ UNCHANGED <<solverVars, w, gr>>

\* Second line: result = self.apply_scaling(<factor>, result).
EApplyScaling ==
    /\ e.pc = "formula"
    /\ e' = [e EXCEPT !.pc = "scaled",
                      !.result = apply_scaling(e.scaling,
                                               e_scaling_factor(e.method),
                                               e.result)]
    /\ UNCHANGED <<solverVars, w, gr>>

\* Third line: return self.scale_output(result).
EScaleOutput ==
    /\ e.pc = "scaled"
    /\ LET r == scale_output(e.output_unit, e.result)
       IN  e' = [e EXCEPT !.pc = "done", !.result = r.v,
                          !.out = IF r.kind = "TypeError" THEN "TypeError"
                                  ELSE IF r.v.k = "None" THEN "None"
                                  ELSE "value"]
    /\ UNCHANGED <<solverVars, w, gr>>

-----------------------------------------------------------------------------
(* mechanical_params.py: the density / hand-hardness estimators            *)

Tenth(n) == n * (Scale \div 10)

TenThou(n) == n * (Scale \div 10000)

\* hhi**3.15 and np.exp(0.270*hhi) for hhi = 1..5.
Pow315(hhi) ==
    CASE hhi = 1 -> 10000
      [] hhi = 2 -> 88766
      [] hhi = 3 -> 318370
      [] hhi = 4 -> 787932
      [] hhi = 5 -> 1591313

Exp027(hhi) ==
    CASE hhi = 1 -> 13100
      [] hhi = 2 -> 17160
      [] hhi = 3 -> 22479
      [] hhi = 4 -> 29447
      [] hhi = 5 -> 38574

\* What the if/elif chain of an estimator leaves: the pair handed to
\* ufloat, or the ValueError of the else branch.
Pair(nom, unc) == [kind |-> "pair", nom |-> nom, unc |-> unc]

Invalid == [kind |-> "ValueError", nom |-> 0, unc |-> 0]

\* a + b*hhi
Lin(a, b, hhi) == FAdd(a, FMul(b, Whole(hhi)))

\* a*x + b*gs + c
Lin2(a, x, b, gs, c) == FAdd(FAdd(FMul(a, x), FMul(b, gs)), c)

\* get_rho_from_hhi_geldsetzer_2001(hhi, gt), lines 188-214.
get_rho_from_hhi_geldsetzer_2001(hhi, gt) ==
    CASE gt = "PP"   -> Pair(Lin(Whole(45), Whole(36), hhi), Whole(27))
      [] gt = "PPgp" -> Pair(Lin(Whole(83), Whole(37), hhi), Whole(42))
      [] gt = "DF"   -> Pair(Lin(Whole(65), Whole(36), hhi), Whole(30))
      [] gt = "RG"   -> Pair(FAdd(Whole(154), FMul(Hund(151), Pow315(hhi))),
                            Whole(46))
      [] gt = "RGmx" -> Pair(Lin(Whole(91), Whole(42), hhi), Whole(32))
      [] gt = "FC"   -> Pair(Lin(Whole(112), Whole(46), hhi), Whole(43))
      [] gt = "FCmx" -> Pair(Lin(Whole(56), Whole(64), hhi), Whole(43))
      [] gt = "DH"   -> Pair(Lin(Whole(185), Whole(25), hhi), Whole(41))
      [] gt = "MFcr" -> Pair(FMul(Whole(2), Lin(Whole(185), Whole(25), hhi)),
                            Whole(2 * 41))
      [] gt = "MF"   -> Pair(FMul(Whole(2), Lin(Whole(185), Whole(25), hhi)),
                            Whole(2 * 41))
      [] gt = "IF"   -> Pair(Whole(870), Whole(50))
      [] gt = "SH"   -> Pair(NaN, NaN)
      [] OTHER       -> Invalid

\* get_rho_from_gt_hhi_kim_2014(hhi, gt), lines 233-252.
get_rho_from_gt_hhi_kim_2014(hhi, gt) ==
    CASE gt = "PP"   -> Pair(Lin(Tenth(413), Tenth(403), hhi), Whole(27))
      [] gt = "PPgp" -> Pair(Lin(Tenth(618), Tenth(464), hhi), Whole(43))
      [] gt = "DF"   -> Pair(Lin(Tenth(625), Tenth(374), hhi), Whole(31))
      [] gt = "RGxf" -> Pair(Lin(Tenth(850), Tenth(463), hhi), Whole(40))
      [] gt = "FC"   -> Pair(Lin(Tenth(1030), Tenth(506), hhi), Whole(47))
      [] gt = "FCxr" -> Pair(Lin(Tenth(688), Tenth(586), hhi), Whole(46))
      [] gt = "DH"   -> Pair(Lin(Tenth(2140), Tenth(190), hhi), Whole(48))
      [] gt = "MFcr" -> Pair(Lin(Tenth(2350), Tenth(151), hhi), Whole(58))
      [] gt = "RG"   -> Pair(FMul(Tenth(918), Exp027(hhi)), Tenth(2))
      [] OTHER       -> Invalid

\* get_hhi_from_rho_gs_kim_2014(rho, gs, gt), lines 273-280 (0.00839 and
\* 0.00830 to the format's four decimals).
get_hhi_from_rho_gs_kim_2014(rho, gs, gt) ==
    CASE gt = "Facets" ->
            Pair(Lin2(TenThou(101), rho, -TenThou(2770), gs, TenThou(6850)),
                 Whole(1))
      [] gt = "FCxr" ->
            Pair(Lin2(TenThou(84), rho, -TenThou(3810), gs, Hund(156)),
                 Whole(1))
      [] gt = "RG" ->
            Pair(Lin2(TenThou(83), rho, -TenThou(985), gs, Hund(148)),
                 Whole(1))
      [] OTHER -> Invalid

\* get_rho_from_hhi_gs_gt_kim_2014(hhi, gs, gt), lines 302-315.
get_rho_from_hhi_gs_gt_kim_2014(hhi, gs, gt) ==
    CASE gt = "Facet" ->
            Pair(Lin2(Tenth(519), Whole(hhi), Tenth(197), gs, Tenth(828)),
                 Whole(46))
      [] gt = "FCxr" ->
            Pair(Lin2(Tenth(604), Whole(hhi), Tenth(277), gs, Tenth(367)),
                 Whole(45))
      [] gt = "PP" ->
            Pair(Lin2(Whole(40), Whole(hhi), -Hund(733), gs, Tenth(528)),
                 Whole(25))
      [] gt = "PPgp" ->
            Pair(Lin2(Tenth(388), Whole(hhi), Tenth(188), gs, Tenth(357)),
                 Whole(33))
      [] gt = "DF" ->
            Pair(Lin2(Tenth(379), Whole(hhi), -Hund(887), gs, Tenth(714)),
                 Whole(31))
      [] gt = "MF" ->
            Pair(Lin2(Tenth(349), Whole(hhi), Tenth(112), gs, Tenth(1245)),
                 Whole(63))
      [] OTHER -> Invalid

Estimators == {"get_rho_from_hhi_geldsetzer_2001",
               "get_rho_from_gt_hhi_kim_2014",
               "get_hhi_from_rho_gs_kim_2014",
               "get_rho_from_hhi_gs_gt_kim_2014"}

\* The grain types each docstring lists (lines 182, 228, 267, 296).
Documented(fn) ==
    CASE fn = "get_rho_from_hhi_geldsetzer_2001" ->
            {"PP", "PPgp", "DF", "RGmx", "FC", "FCmx", "DH", "MFcr", "MF",
             "IF", "SH"}
      [] fn = "get_rho_from_gt_hhi_kim_2014" ->
            {"PP", "PPgp", "DF", "RG", "RGxf", "FC", "FCxr", "DH", "MFcr"}
      [] fn = "get_hhi_from_rho_gs_kim_2014" -> {"Facets", "FCxr", "RG"}
      [] fn = "get_rho_from_hhi_gs_gt_kim_2014" ->
            {"Facet", "FCxr", "PP", "PPgp", "DF", "MF"}

\* Grain-type strings callers pass: every listed one, and some that no
\* estimator names.
GrainTypes ==
    UNION {Documented(fn) : fn \in Estimators}
    \cup {"RG", "rg", "pp", "FCsf", "MFpc", "Rounded", ""}

GHhi == 1..5

GGs == {Tenth(5), Whole(2)}

GRho == {Whole(100), Whole(300)}

GIdle == [pc |-> "idle", fn |-> "", gt |-> "", hhi |-> 0, gs |-> 0,
          rho |-> 0, sel |-> Invalid, out |-> "none", nom |-> 0, unc |-> 0]

\* A caller invokes one estimator with the parameters of its signature.
GCall ==
    /\ gr.pc = "idle"
    /\ \E fn \in Estimators, gt \in GrainTypes, hhi \in GHhi, gs \in GGs,
          rho \in GRho :
          gr' = [GIdle EXCEPT
                   !.pc = "called", !.fn = fn, !.gt = gt,
                   !.hhi = IF fn = "get_hhi_from_rho_gs_kim_2014" THEN 0
                           ELSE hhi,
                   !.gs = IF fn \in {"get_hhi_from_rho_gs_kim_2014",
                                     "get_rho_from_hhi_gs_gt_kim_2014"}
                          THEN gs ELSE 0,
                   !.rho = IF fn = "get_hhi_from_rho_gs_kim_2014" THEN rho
                           ELSE 0]
    /\ UNCHANGED <<solverVars, w, e>>

\* The if/elif chain on gt: a branch binds the pair, the else branch raises
\* ValueError and the call ends.
GSelect ==
    /\ gr.pc = "called"
    /\ \E sel \in {CASE gr.fn = "get_rho_from_hhi_geldsetzer_2001" ->
                          get_rho_from_hhi_geldsetzer_2001(gr.hhi, gr.gt)
                     [] gr.fn = "get_rho_from_gt_hhi_kim_2014" ->
                          get_rho_from_gt_hhi_kim_2014(gr.hhi, gr.gt)
                     [] gr.fn = "get_hhi_from_rho_gs_kim_2014" ->
                          get_hhi_from_rho_gs_kim_2014(gr.rho, gr.gs, gr.gt)
                     [] gr.fn = "get_rho_from_hhi_gs_gt_kim_2014" ->
                          get_rho_from_hhi_gs_gt_kim_2014(gr.hhi, gr.gs,
                                                          gr.gt)} :
          gr' = IF sel.kind = "ValueError"
                THEN [gr EXCEPT !.pc = "done", !.sel = sel,
                                !.out = "ValueError"]
                ELSE [gr EXCEPT !.pc = "selected", !.sel = sel]
    /\ UNCHANGED <<solverVars, w, e>>

\* return ufloat(rho, unc): the value carries the pair as nominal value and
\* standard deviation.
GUfloat ==
    /\ gr.pc = "selected"
    /\ gr' = [gr EXCEPT !.pc = "done", !.out = "return",
                        !.nom = gr.sel.nom, !.unc = gr.sel.unc]
    /\ UNCHANGED <<solverVars, w, e>>

-----------------------------------------------------------------------------
(* crack_propagation.py: _anticrack_propagation_speed                      *)

Threads == {1, 2}

Other(t) == 3 - t

\* The frame an invocation's local variables live in: every call of the
\* function has a frame of its own, and the closure get_speed_for_td_length
\* and its lambda read eta, H_f, Sigma and C_initial_guess from the frame of
\* the invocation that created them.
FrameOfShared(t) == 1

FrameOf(t) == t

\* k = 5/6
k == (5 * Scale) \div 6

NoFrame == [G |-> 0, eta |-> 0, shear_wave_velocity |-> 0,
            longitudinal_wave_velocity |-> 0, sigma |-> 0, tau |-> 0,
            L |-> 0, H_f |-> 0, Sigma |-> 0, Tau |-> 0,
            C_initial_guess |-> 0]

\* np.radians(theta), theta in whole degrees.
Radians(theta) == (theta * Pi) \div 180

\* Lines 90-105 with Python scalars as arguments: a zero divisor raises
\* ZeroDivisionError at the first line that meets one; np.sqrt and the
\* divisions of numpy values do not raise.
DeriveFrame(a) ==
    LET theta == Radians(a.theta)
        d1    == FMul(Whole(2), FAdd(Whole(1), a.nu))
        G     == FDiv(a.E, d1)
        d2    == FMul(FMul(Whole(3), k), G)
        eta   == FSqrt(FDiv(a.E, d2))
        swv   == FSqrt(FDiv(FMul(k, G), a.rho))
        lwv   == FSqrt(FDiv(a.E, a.rho))
        rgh   == FMul(FMul(a.rho, a.g), a.h)
        sigma == FMul(FNeg(rgh), FCos(theta))
        tau   == FMul(rgh, FSin(theta))
        L     == FDiv(a.l, a.h)
        H_f   == FDiv(a.hf, a.h)
        Sigma == FDiv(FNeg(sigma), FMul(k, G))
        Tau   == FDiv(tau, FMul(k, G))
    IN  IF d1 = 0 \/ d2 = 0 \/ a.rho = 0 \/ a.h = 0
        THEN [exc |-> "ZeroDivisionError", fr |-> NoFrame]
        ELSE [exc |-> "none",
              fr |-> [G |-> G, eta |-> eta, shear_wave_velocity |-> swv,
                      longitudinal_wave_velocity |-> lwv, sigma |-> sigma,
                      tau |-> tau, L |-> L, H_f |-> H_f, Sigma |-> Sigma,
                      Tau |-> Tau, C_initial_guess |-> a.C_initial_guess]]

\* The argument of the trigonometric terms, 2*C*L/eta.
TrigArg(C, fr) == FDiv(FMul(FMul(Whole(2), C), fr.L), fr.eta)

\* Line 85, the residual, evaluated on a numpy value C:
\* (L**2/C**2)*((eta/(L*C*(1-C**2))) * (1/np.sin(2*C*L/eta)
\*              - 1/np.tan(2*C*L/eta)) - 1) - 2*H_f/Sigma
funcV(C, fr) ==
    LET x == TrigArg(C, fr)
        a == FDiv(FMul(fr.L, fr.L), FMul(C, C))
        b == FDiv(fr.eta,
                  FMul(FMul(fr.L, C), FSub(Whole(1), FMul(C, C))))
        c == FSub(FDiv(Whole(1), FSin(x)), FDiv(Whole(1), FTan(x)))
    IN  FSub(FMul(a, FSub(FMul(b, c), Whole(1))),
             FDiv(FMul(Whole(2), fr.H_f), fr.Sigma))

func(C, fr) == Bind2(C, fr, funcV)

\* The points where the residual is mathematically undefined: C = 0,
\* C*C = 1, and the zeros of sin(2*C*L/eta).
FuncUndefinedV(C, fr) ==
    \/ C = 0
    \/ FMul(C, C) = Whole(1)
    \/ FSin(TrigArg(C, fr)) = 0

FuncUndefined(C, fr) == Bind2(C, fr, FuncUndefinedV)

-----------------------------------------------------------------------------
(* optimize.fsolve(func, C_initial_guess), line 86: MINPACK's hybrd for    *)
(* one unknown with fsolve's defaults (xtol = sqrt(machine epsilon),       *)
(* maxfev = 200*(n+1), factor = 100, forward-difference Jacobian, Broyden  *)
(* update).  Whatever the termination status, fsolve returns the last      *)
(* accepted x; for a status other than 1 it emits a RuntimeWarning only.   *)

\* The format's machine epsilon (one unit) and its square root.
EpsMch == 1

SqrtEps == Isqrt(EpsMch * Scale)

XTol == SqrtEps

Factor == Whole(100)

\* fsolve's cap on residual evaluations (200*(n+1) in scipy), scaled down.
MaxFev == 16

P1 == Scale \div 10

P5 == Scale \div 2

P001 == Scale \div 1000

P0001 == Scale \div 10000

NoIter == [x |-> 0, fx |-> 0, fnorm |-> 0, J |-> 0, diag |-> 0, delta |-> 0,
           xnorm |-> 0, pnorm |-> 0, nfev |-> 0, iter |-> 0, ncsuc |-> 0,
           ncfail |-> 0, nslow1 |-> 0, nslow2 |-> 0, jeval |-> FALSE,
           info |-> 0, undef |-> FALSE]

\* fvec = func(x0); nfev = 1; fnorm = enorm(fvec).
HybrdInitV(x0, fr) ==
    Bind(func(x0, fr),
         LAMBDA f0 :
            [NoIter EXCEPT !.x = x0, !.fx = f0, !.fnorm = FAbs(f0),
                           !.nfev = 1, !.iter = 1,
                           !.undef = FuncUndefined(x0, fr)])

HybrdInit(x0, fr) == Bind2(x0, fr, HybrdInitV)

\* The forward-difference step of fdjac1: sqrt(epsfcn)*|x|, or sqrt(epsfcn)
\* where that is zero.
JacStep(x) ==
    Bind(FMul(SqrtEps, FAbs(x)), LAMBDA h0 : IF h0 = 0 THEN SqrtEps ELSE h0)

\* The start of an outer iteration once the slope J is known: on the first
\* iteration the scaling diag, xnorm and the step bound delta are set.
JacUpdate(s, J) ==
    LET d0    == IF FAbs(J) = 0 THEN Whole(1) ELSE FAbs(J)
        xn0   == FMul(d0, FAbs(s.x))
        dl0   == IF FMul(Factor, xn0) = 0 THEN Factor ELSE FMul(Factor, xn0)
        first == s.iter = 1
        diag1 == IF first THEN d0 ELSE s.diag
    IN  [s EXCEPT !.J = J, !.nfev = s.nfev + 1, !.jeval = TRUE,
                  !.diag = FMaxOf(diag1, FAbs(J)),
                  !.xnorm = IF first THEN xn0 ELSE s.xnorm,
                  !.delta = IF first THEN dl0 ELSE s.delta]

\* fdjac1: one residual evaluation at x + h gives the slope.
HybrdJacV(s, fr) ==
    Bind(JacStep(s.x),
         LAMBDA h :
            Bind(FDiv(FSub(func(FAdd(s.x, h), fr), s.fx), h),
                 LAMBDA J :
                    [JacUpdate(s, J) EXCEPT
                        !.undef = s.undef \/ FuncUndefined(FAdd(s.x, h), fr)]))

HybrdJac(s, fr) == Bind2(s, fr, HybrdJacV)

\* The test that ends the search for want of budget: nfev >= maxfev.
BudgetExhaustedNever(nfev) == FALSE

BudgetExhausted(nfev) == nfev >= MaxFev

\* dogleg for one unknown: the Newton step -f/J, cut to the step bound.
DoglegStep(s) ==
    Bind(FNeg(FDiv(s.fx, s.J)),
         LAMBDA pgn :
            IF FGt(FAbs(FMul(s.diag, pgn)), s.delta)
            THEN FMul(IF pgn = NaN THEN NaN ELSE Whole(Sgn(pgn)),
                      FDiv(s.delta, s.diag))
            ELSE pgn)

\* The trial point x + p and the residual there.
Trial(s, fr, p) ==
    [p |-> p, xt |-> FAdd(s.x, p), pnorm |-> FAbs(FMul(s.diag, p)),
     f1 |-> func(FAdd(s.x, p), fr)]

\* The actual reduction of the residual, scaled.
Actred(s, tr) ==
    Bind(FDiv(FAbs(tr.f1), s.fnorm),
         LAMBDA q1 :
            IF FLt(FAbs(tr.f1), s.fnorm) THEN FSub(Whole(1), FMul(q1, q1))
            ELSE -Scale)

\* The reduction the linear model predicts, scaled.
Prered(s, tr) ==
    Bind(FAbs(FAdd(s.fx, FMul(s.J, tr.p))),
         LAMBDA temp :
            IF FLt(temp, s.fnorm)
            THEN Bind(FDiv(temp, s.fnorm),
                      LAMBDA q2 : FSub(Whole(1), FMul(q2, q2)))
            ELSE 0)

Ratio(actred, prered) == IF FGt(prered, 0) THEN FDiv(actred, prered) ELSE 0

\* The rest of a pass of the inner loop, the trial tr, actred and ratio
\* known: the step bound's update, acceptance, the termination tests and
\* the rank-one update of the slope.
StepUpdate(s, tr, actred, ratio) ==
    LET delta0 == IF s.iter = 1 THEN FMinOf(s.delta, tr.pnorm) ELSE s.delta
        fail   == FLt(ratio, P1)
        ncsuc  == IF fail THEN 0 ELSE s.ncsuc + 1
        ncfail == IF fail THEN s.ncfail + 1 ELSE 0
        delta1 == IF fail THEN FMul(P5, delta0)
                  ELSE IF FLe(FAbs(FSub(ratio, Whole(1))), P1)
                       THEN FDiv(tr.pnorm, P5)
                  ELSE IF FGe(ratio, P5) \/ ncsuc > 1
                       THEN FMaxOf(delta0, FDiv(tr.pnorm, P5))
                  ELSE delta0
        accept == FGe(ratio, P0001)
        xnorm1 == IF accept THEN FAbs(FMul(s.diag, tr.xt)) ELSE s.xnorm
        fnormN == IF accept THEN FAbs(tr.f1) ELSE s.fnorm
        nfev1  == s.nfev + 1
        nslow1 == IF FGe(actred, P001) THEN 0 ELSE s.nslow1 + 1
        nslow2 == IF FGe(actred, P1) THEN 0
                  ELSE IF s.jeval THEN s.nslow2 + 1 ELSE s.nslow2
        info   == IF FLe(delta1, FMul(XTol, xnorm1)) \/ fnormN = 0 THEN 1
                  ELSE IF nslow1 = 10 THEN 5
                  ELSE IF nslow2 = 5 THEN 4
                  ELSE IF FLe(FMul(P1, FMaxOf(FMul(P1, delta1), tr.pnorm)),
                              FMul(EpsMch, xnorm1)) THEN 3
                  ELSE IF BudgetExhausted(nfev1) THEN 2
                  ELSE 0
        J1     == IF info # 0 \/ ncfail = 2 THEN s.J
                  ELSE FAdd(s.J,
                            FDiv(FSub(FSub(tr.f1, s.fx), FMul(s.J, tr.p)),
                                 tr.p))
    IN  [s EXCEPT !.x = IF accept THEN tr.xt ELSE s.x,
                  !.fx = IF accept THEN tr.f1 ELSE s.fx,
                  !.fnorm = fnormN, !.J = J1,
                  !.delta = delta1, !.xnorm = xnorm1, !.pnorm = tr.pnorm,
                  !.nfev = nfev1,
                  !.iter = IF accept THEN s.iter + 1 ELSE s.iter,
                  !.ncsuc = ncsuc, !.ncfail = ncfail, !.nslow1 = nslow1,
                  !.nslow2 = nslow2, !.jeval = FALSE, !.info = info]

\* One pass of the inner loop, with one residual evaluation.  info # 0
\* ends the search; ncfail = 2 sends it back to HybrdJac.
HybrdStepV(s, fr) ==
    Bind(Trial(s, fr, DoglegStep(s)),
         LAMBDA tr :
            Bind(Actred(s, tr),
                 LAMBDA actred :
                    Bind(Ratio(actred, Prered(s, tr)),
                         LAMBDA ratio :
                            [StepUpdate(s, tr, actred, ratio) EXCEPT
                                !.undef = s.undef
                                          \/ FuncUndefined(tr.xt, fr)])))

HybrdStep(s, fr) == Bind2(s, fr, HybrdStepV)

-----------------------------------------------------------------------------
(* One invocation run from entry to return with nothing else running       *)

\* fsolve from the first slope estimate to its exit.
RECURSIVE SoloSolve(_, _, _)
SoloSolve(s, fr, phase) ==
    IF phase = "jac" THEN SoloSolve(HybrdJac(s, fr), fr, "step")
    ELSE Bind(HybrdStep(s, fr),
              LAMBDA s1 :
                 IF s1.info # 0 THEN s1
                 ELSE SoloSolve(s1, fr,
                                IF s1.ncfail = 2 THEN "jac" ELSE "step"))

\* Lines 90-110 executed in sequence on the arguments a.
SoloOutcome(a) ==
    Bind(DeriveFrame(a),
         LAMBDA d :
            IF d.exc # "none" THEN [kind |-> d.exc, c |-> 0]
            ELSE [kind |-> "return",
                  c |-> FMul(SoloSolve(HybrdInit(a.C_initial_guess, d.fr),
                                       d.fr, "jac").x,
                             d.fr.shear_wave_velocity)])

-----------------------------------------------------------------------------
(* The call as a state machine, one invocation per thread                  *)

\* A slab with L = 2 and one with L = 1 (eta = 1, H_f = 0.75, Sigma = 1/8).
SlabA == [g |-> Whole(10), E |-> Whole(12000), nu |-> Hund(25),
          h |-> Hund(40), hf |-> Hund(30), rho |-> Whole(250), theta |-> 60,
          l |-> Hund(80), C_initial_guess |-> Hund(50)]

SlabB == [SlabA EXCEPT !.h = Hund(80), !.hf = Hund(60), !.rho = Whole(125)]

\* Initial guesses inside (0,1), and the two ends of the interval.
ValidGuesses == {Hund(20), Hund(40), Hund(50), Hund(60), Hund(80)}

Guesses == ValidGuesses \cup {0, Whole(1)}

\* The arguments calls are made with: both slabs with every guess, and
\* slab A with nu = 0.5, with rho = 0 and with h = 0.
ArgSet ==
    {[sl EXCEPT !.C_initial_guess = c] : sl \in {SlabA, SlabB}, c \in Guesses}
    \cup {[SlabA EXCEPT !.nu = Hund(50)], [SlabA EXCEPT !.rho = 0],
          [SlabA EXCEPT !.h = 0]}

\* The domain the specification states for the arguments.
ValidSlab(a) ==
    /\ a.E > 0 /\ a.h > 0 /\ a.hf > 0 /\ a.rho > 0 /\ a.l > 0
    /\ a.nu > -Whole(1) /\ a.nu < Hund(50)

ValidArgs(a) ==
    ValidSlab(a) /\ a.C_initial_guess > 0 /\ a.C_initial_guess < Whole(1)

NoArgs == [SlabA EXCEPT !.g = 0, !.E = 0, !.nu = 0, !.h = 0, !.hf = 0,
                        !.rho = 0, !.theta = 0, !.l = 0,
                        !.C_initial_guess = 0]

NoOut == [kind |-> "none", c |-> 0]

\* What a caller remembers of an earlier, completed call, and whether a call
\* with other arguments has completed since.
NoMemo == [set |-> FALSE, args |-> NoArgs, out |-> NoOut, between |-> FALSE]

\* Calls one thread makes one after the other, at most.
MaxCalls == 3

InFlight(t) == pc[t] \notin {"idle", "done"}

\* The value fsolve starts from: the C_initial_guess of the invocation.
StartPointStale(t) ==
    IF it[t].nfev > 0 THEN it[t].x
    ELSE frame[FrameOf(t)].C_initial_guess

StartPoint(t) == frame[FrameOf(t)].C_initial_guess

\* A caller invokes anticrack_propagation_speed (line 111: the wrapper
\* passes plain numbers through).  A call that follows a completed one may
\* be remembered in memo.
Call(t) ==
    /\ pc[t] \in {"idle", "done"}
    /\ budget[t] > 0
    /\ \E a \in ArgSet :
          args' = [args EXCEPT ![t] = a]
    /\ pc' = [pc EXCEPT ![t] = "called"]
    /\ budget' = [budget EXCEPT ![t] = @ - 1]
    /\ out' = [out EXCEPT ![t] = NoOut]
    /\ memo' \in {IF memo.set /\ pc[t] = "done" /\ args[t] # memo.args
                    THEN [memo EXCEPT !.between = TRUE] ELSE memo}
                   \cup (IF pc[t] = "done"
                         THEN {[set |-> TRUE, args |-> args[t],
                                out |-> out[t], between |-> FALSE]}
                         ELSE {})
    /\ UNCHANGED <<frame, it, overlap, w, e, gr>>

\* Lines 90-105: the derived quantities are bound in the invocation's
\* frame, or the first division by zero ends the call.
Derive(t) ==
    /\ pc[t] = "called"
    /\ \E d \in {DeriveFrame(args[t])} :
           IF d.exc = "none"
           THEN /\ frame' = [frame EXCEPT ![FrameOf(t)] = d.fr]
                /\ pc' = [pc EXCEPT ![t] = "derived"]
                /\ out' = out
           ELSE /\ frame' = frame
                /\ pc' = [pc EXCEPT ![t] = "done"]
                /\ out' = [out EXCEPT ![t] = [kind |-> d.exc, c |-> 0]]
    /\ overlap' = (overlap \/ InFlight(Other(t)))
    /\ UNCHANGED <<args, it, budget, memo, w, e, gr>>

\* Lines 108 and 86: fsolve is entered and evaluates the residual at the
\* starting point.
FsolveStart(t) ==
    /\ pc[t] = "derived"
    /\ it' = [it EXCEPT ![t] = HybrdInit(StartPoint(t), frame[FrameOf(t)])]
    /\ pc' = [pc EXCEPT ![t] = "jac"]
    /\ overlap' = (overlap \/ InFlight(Other(t)))
    /\ UNCHANGED <<args, frame, out, budget, memo, w, e, gr>>

\* fsolve estimates the slope with one more residual evaluation.
FsolveJac(t) ==
    /\ pc[t] = "jac"
    /\ it' = [it EXCEPT ![t] = HybrdJac(it[t], frame[FrameOf(t)])]
    /\ pc' = [pc EXCEPT ![t] = "step"]
    /\ overlap' = (overlap \/ InFlight(Other(t)))
    /\ UNCHANGED <<args, frame, out, budget, memo, w, e, gr>>

\* fsolve tries one step, with one residual evaluation.
FsolveStep(t) ==
    /\ pc[t] = "step"
    /\ \E s1 \in {HybrdStep(it[t], frame[FrameOf(t)])} :
           /\ it' = [it EXCEPT ![t] = s1]
           /\ pc' = [pc EXCEPT ![t] = IF s1.info # 0 THEN "solved"
                                      ELSE IF s1.ncfail = 2 THEN "jac"
                                      ELSE "step"]
    /\ overlap' = (overlap \/ InFlight(Other(t)))
    /\ UNCHANGED <<args, frame, out, budget, memo, w, e, gr>>

\* Lines 87 and 108-110: fsolve's x comes back whatever its status, is
\* multiplied by the shear-wave speed and returned.
Convert(t) ==
    /\ pc[t] = "solved"
    /\ out' = [out EXCEPT ![t] =
                 [kind |-> "return",
                  c |-> FMul(it[t].x,
                             frame[FrameOf(t)].shear_wave_velocity)]]
    /\ pc' = [pc EXCEPT ![t] = "done"]
    /\ overlap' = (overlap \/ InFlight(Other(t)))
    /\ UNCHANGED <<args, frame, it, budget, memo, w, e, gr>>

SolverStep(t) ==
    Derive(t) \/ FsolveStart(t) \/ FsolveJac(t) \/ FsolveStep(t) \/ Convert(t)

SolverIdle ==
    /\ pc = [t \in Threads |-> "idle"]
    /\ args = [t \in Threads |-> NoArgs]
    /\ frame = [t \in Threads |-> NoFrame]
    /\ it = [t \in Threads |-> NoIter]
    /\ out = [t \in Threads |-> NoOut]
    /\ memo = NoMemo
    /\ overlap = FALSE

NextSolver == \E t \in Threads : Call(t) \/ SolverStep(t)

\* One caller making up to MaxCalls calls one after the other.
Init ==
    /\ SolverIdle
    /\ budget = [t \in Threads |-> IF t = 1 THEN MaxCalls ELSE 0]
    /\ w = WIdle
    /\ e = EIdle
    /\ gr = GIdle

Spec == Init /\ [][NextSolver]_vars

\* One caller making one call.
InitOne ==
    /\ SolverIdle
    /\ budget = [t \in Threads |-> IF t = 1 THEN 1 ELSE 0]
    /\ w = WIdle
    /\ e = EIdle
    /\ gr = GIdle

\* A call that has been made is carried through: the interpreter keeps
\* running the thread that executes it.
SpecFair ==
    InitOne /\ [][NextSolver]_vars /\ \A t \in Threads : WF_vars(SolverStep(t))

\* Two threads, one call each, their steps interleaved.
InitConc ==
    /\ SolverIdle
    /\ budget = [t \in Threads |-> 1]
    /\ w = WIdle
    /\ e = EIdle
    /\ gr = GIdle

SpecConc == InitConc /\ [][NextSolver]_vars

InitIdle ==
    /\ SolverIdle
    /\ budget = [t \in Threads |-> 0]
    /\ w = WIdle
    /\ e = EIdle
    /\ gr = GIdle

NextWave == WCall \/ WShear \/ WRayleigh

SpecWave == InitIdle /\ [][NextWave]_vars

NextE == ENew \/ EFormula \/ EApplyScaling \/ EScaleOutput

SpecE == InitIdle /\ [][NextE]_vars


NextGrain == GCall \/ GSelect \/ GUfloat

SpecGrain == InitIdle /\ [][NextGrain]_vars

-----------------------------------------------------------------------------
(* Properties                                                              *)

Done(t) == pc[t] = "done"

\* The outcome of each argument tuple run alone.
SoloTable == [a \in ArgSet |-> SoloOutcome(a)]

\* C1: a call whose arguments violate the stated domain (C_initial_guess = 0
\* or 1, nu = 0.5, rho = 0, h = 0) ends in InvalidParameter, never in a
\* numeric exception or an ordinary returned speed.
C1_OutOfDomainRejected ==
    \A t \in Threads :
        Done(t) /\ ~ValidArgs(args[t]) => out[t].kind = "InvalidParameter"

\* C2: a call whose root search ended with a status other than "converged"
\* (budget exhausted, no progress) ends in NonConvergence; the last iterate
\* is not converted and returned.
C2_NonConvergenceReported ==
    \A t \in Threads :
        Done(t) /\ it[t].info \in {2, 3, 4, 5} /\ out[t].kind # "none"
            => out[t].kind = "NonConvergence"

\* C3: with valid slab parameters and an initial guess inside (0,1), every
\* returned speed c satisfies 0 < c < shear_wave_velocity.
C3_SpeedBelowShearWave ==
    \A t \in Threads :
        Done(t) /\ ValidArgs(args[t]) /\ out[t].kind = "return"
            => /\ FGt(out[t].c, 0)
               /\ FLt(out[t].c, frame[FrameOf(t)].shear_wave_velocity)

\* C4: a call whose search evaluated the residual where it is undefined
\* either surfaces a failure or has moved away and converged at a point
\* where the residual is defined.
C4_UndefinedPointHandled ==
    \A t \in Threads :
        Done(t) /\ it[t].undef /\ out[t].kind # "none"
            => \/ out[t].kind \in {"NonConvergence", "NumericalDomainError",
                                   "InvalidParameter"}
               \/ /\ it[t].info = 1
                  /\ ~FuncUndefined(it[t].x, frame[FrameOf(t)])

\* C5: every call terminates: the number of residual evaluations never
\* exceeds the cap MaxFev, and a call in flight eventually ends.
C5_CallTerminates ==
    /\ [](\A t \in Threads : it[t].nfev <= MaxFev)
    /\ \A t \in Threads : InFlight(t) ~> Done(t)

\* C5, the case: a call has ended with its search stopped by the cap.
C5_Witness ==
    \E t \in Threads :
        Done(t) /\ out[t].kind = "return" /\ it[t].info = 2
                /\ it[t].nfev = MaxFev

\* C6 as stated: for every nu in (-1, 0.5) the Rayleigh-wave speed is a
\* defined number strictly below the shear-wave speed.
C6_RayleighBelowShearEverywhere ==
    w.pc = "done" => w.cr # NaN /\ FLt(w.cr, w.cs)

\* C6, amended: the Rayleigh-wave speed is a defined number strictly below
\* the shear-wave speed for nu with 0.87 + 1.12*nu >= 0 (nu >= -0.7768);
\* for smaller nu of (-1, 0.5) the radicand is negative and it is NaN.
C6_RayleighBelowShear ==
    w.pc = "done" =>
        IF 112 * w.nu >= -87 * Scale
        THEN w.cr # NaN /\ FLt(w.cr, w.cs)
        ELSE w.cr = NaN

\* C6, the case: a Rayleigh-wave speed has been computed for a nu below
\* -0.7768.
C6_Witness ==
    w.pc = "done" /\ 112 * w.nu < -87 * Scale /\ w.nu > -Whole(1)
                  /\ w.cr = NaN

\* C7: an output_unit outside Pa, kPa, MPa, GPa or a scaling on which the
\* computation fails ends the e_* method in InvalidParameter; None is never
\* returned nor passed to scale_output.
C7_BadUnitOrScalingRejected ==
    /\ e.pc = "done"
         /\ (e.output_unit \notin {"Pa", "kPa", "MPa", "GPa"}
             \/ e.scaling.k = "short")
         => e.out = "InvalidParameter"
    /\ e.pc = "done" => e.out # "None"
    /\ e.pc = "scaled" => e.result.k # "None"

\* C8: a call with the arguments of an earlier call ends with the outcome
\* of the earlier call, whatever calls completed in between.
C8_Deterministic ==
    \A t \in Threads :
        Done(t) /\ memo.set /\ memo.args = args[t] => out[t] = memo.out

\* C8, the case: a call has returned a speed for the arguments of a
\* remembered call, a call with other arguments having completed in between.
C8_Witness ==
    \E t \in Threads :
        /\ Done(t) /\ memo.set /\ memo.between /\ memo.args = args[t]
        /\ out[t].kind = "return"

\* C9: under any interleaving of two concurrent invocations each ends with
\* the outcome it has when run alone.
C9_ConcurrentAsAlone ==
    \A t \in Threads : Done(t) => out[t] = SoloTable[args[t]]

\* C9, the case: two invocations with different arguments have overlapped
\* and both have returned.
C9_Witness ==
    /\ overlap /\ args[1] # args[2]
    /\ \A t \in Threads : Done(t) /\ out[t].kind = "return"

\* C10: with scaling = (E_measured, rho_measured) and output_unit "Pa",
\* every e_* method evaluated at rho = rho_measured returns E_measured
\* (to within one percent).
C10_ScalingAnchors ==
    e.pc = "done" /\ e.scaling.k = "pair" /\ e.output_unit = "Pa"
                  /\ e.rho = e.scaling.rho
        => /\ e.out = "value"
           /\ Abs(e.result.lg - Log10n(e.scaling.E)) <= 5

\* C11: each estimator accepts exactly the grain types its docstring
\* lists: for a listed one it returns a value whose nominal and uncertainty
\* are not NaN, for any other string it raises ValueError.
C11_AcceptsDocumentedGrainTypes ==
    gr.pc = "done" =>
        IF gr.gt \in Documented(gr.fn)
        THEN gr.out = "return" /\ gr.nom # NaN /\ gr.unc # NaN
        ELSE gr.out = "ValueError"

=============================================================================
